---- MODULE Spec2Model ----
(***************************************************************************)
(* Frame.io -> Slack webhook relay.                                        *)
(*                                                                         *)
(* The repository holds three deployments of the same POST /webhook        *)
(* handler:                                                                *)
(*   "server"   src/server.js          token cache, project lookup, blocks *)
(*   "part_001" src/unnamed/part_001   config check, text message          *)
(*   "part_000" src/unnamed/part_000   no config check, promise chain      *)
(*                                                                         *)
(* Node runs one callback at a time.  A handler runs without interruption  *)
(* from one network await to the next, so one action of the model is the   *)
(* code between two network awaits of one request.  Requests overlap only  *)
(* at those awaits, and share only the token cache of src/server.js.       *)
(*                                                                         *)
(* Time is counted in minutes: Date.now() + 60 * 60 * 1000 ms is           *)
(* clock + TokenTtl.                                                       *)
(***************************************************************************)
EXTENDS Integers, FiniteSets, Sequences, TLC

\* ---------------------------------------------------------------- bounds
NumReqs == 2
MaxClock == 90

Reqs == 1..NumReqs
\* the clock advances in half-lifetimes, so that both "before the expiry"
\* and "exactly at the expiry" are instants at which a request can arrive
Ticks == {30}
\* lifetimes (expires_in, in minutes) the identity provider may declare
Lifetimes == {30, 90}

\* ------------------------------------------------------------- constants
\* null.  Tokens are numbered from 1 and every stored expiry is at least
\* TokenTtl, so 0 is neither; Date.now() < null compares against 0 in JS too.
NULL == 0
\* 60 * 60 * 1000 ms, in minutes
TokenTtl == 60

Variants == {"server", "part_000", "part_001"}

\* ------------------------------------------------------------- payloads
\* req.body.  A field is TRUE when the payload carries it.  resource.asset,
\* resource.owner and resource.timestamp are read by comment.created only.
Types == {"comment.created", "asset.created", "unknown.event"}

Payload(t, res, pid, own, ast, ts) ==
  [type |-> t, resource |-> res, project_id |-> pid, owner |-> own,
   asset |-> ast, timestamp |-> ts]

Payloads ==
  { Payload("unknown.event", FALSE, FALSE, FALSE, FALSE, FALSE),
    Payload("comment.created", FALSE, FALSE, FALSE, FALSE, FALSE),
    Payload("asset.created", FALSE, FALSE, FALSE, FALSE, FALSE) }
  \cup { Payload("comment.created", TRUE, pid, TRUE, TRUE, TRUE) : pid \in BOOLEAN }
  \cup { Payload("comment.created", TRUE, TRUE, FALSE, TRUE, TRUE),
         Payload("comment.created", TRUE, FALSE, TRUE, FALSE, TRUE),
         Payload("comment.created", TRUE, FALSE, TRUE, TRUE, FALSE) }
  \cup { Payload("asset.created", TRUE, TRUE, TRUE, TRUE, TRUE),
         Payload("asset.created", TRUE, FALSE, FALSE, TRUE, TRUE) }

NoPayload == Payload("none", FALSE, FALSE, FALSE, FALSE, FALSE)

VARIABLES
  variant,       \* which of the three deployments runs
  slackUrlSet,   \* SLACK_WEBHOOK_URL (SLACK_URL in part_000) is configured
  clock,         \* Date.now(), in minutes
  accessToken,   \* server.js:15  NULL or the token of the exchange that stored it
  tokenExpiry,   \* server.js:16  NULL or an instant
  storedAt,      \* history: Date.now() when accessToken was stored
  tokenLifetime, \* history: expires_in the provider declared for accessToken
  expiryOf,      \* history: the exchange that wrote tokenExpiry
  req            \* the requests: position, payload, response, and history

vars == <<variant, slackUrlSet, clock, accessToken, tokenExpiry, storedAt,
          tokenLifetime, expiryOf, req>>

cache == <<accessToken, tokenExpiry, storedAt, tokenLifetime, expiryOf>>
config == <<variant, slackUrlSet>>

NoToken == [kind |-> "none", token |-> NULL, unexpired |-> FALSE]

\* a request that has not arrived yet
Idle ==
  [pc |-> "idle", payload |-> NoPayload,
   status |-> 0, body |-> "none",        \* the response, 0 while none is sent
   lookup |-> "none",                    \* how getProjectName ended
   projectName |-> "none",               \* what getProjectName returned
   imsPosts |-> 0,                       \* POSTs to the identity endpoint
   stores |-> 0,                         \* writes of accessToken and tokenExpiry
   apiGets |-> 0,                        \* GETs to the media-review API
   chatPosts |-> 0,                      \* POSTs to the chat endpoint
   bearer |-> NULL,                      \* Authorization header of the GET in flight
   tok |-> NoToken,                      \* what getAccessToken returned to it, and
                                         \* whether Date.now() < tokenExpiry then
   authErr |-> FALSE,                    \* getAccessToken threw
   threw |-> FALSE,                      \* formatting threw
   relay |-> "none",                     \* outcome of the chat POST
   message |-> <<>>]                     \* body of the chat POST

Init ==
  /\ variant \in Variants
  /\ slackUrlSet \in BOOLEAN
  /\ clock = 0
  /\ accessToken = NULL
  /\ tokenExpiry = NULL
  /\ storedAt = NULL
  /\ tokenLifetime = NULL
  /\ expiryOf = NULL
  /\ req = [r \in Reqs |-> Idle]

\* ------------------------------------------------------------ responses
\* res.status(st).send(...): the request is answered
Respond(rec, st, bd) == [rec EXCEPT !.pc = "done", !.status = st, !.body = bd]

\* (mutant) the final else of the dispatch is lost
IsHandledAll(t) == TRUE

\* server.js:89, 107, 122; part_001:32, 35, 40; part_000:17, 19, 21
IsHandled(t) == t \in {"comment.created", "asset.created"}

\* ---------------------------------------------------------- token cache
\* (mutant) the expiry is not looked at
TokenValidForever(token, expiry, now) == token # NULL

\* server.js:24  accessToken && Date.now() < tokenExpiry
TokenValid(token, expiry, now) == token # NULL /\ now < expiry

\* (mutant) the expiry follows the lifetime the provider declared, less the
\* 60 s buffer
NewExpiryFromLifetime(now, expires_in) == now + expires_in - 1

\* server.js:39  tokenExpiry = Date.now() + (60 * 60 * 1000); the lifetime the
\* provider declared (expires_in) is not read
NewExpiry(now, expires_in) == now + TokenTtl

\* server.js:53-57  the request interceptor puts the token getAccessToken
\* returned into the Authorization header, and axios sends the GET
SendGet(rec, token, how, now, expiry) ==
  [rec EXCEPT !.pc = "awaitGet", !.lookup = "pending", !.apiGets = @ + 1,
              !.bearer = token,
              !.tok = [kind |-> how, token |-> token, unexpired |-> now < expiry]]

\* server.js:22-35  getAccessToken up to its await: the cached token is
\* returned while it is valid, otherwise the POST to the identity endpoint
\* is issued
getAccessToken(rec) ==
  IF TokenValid(accessToken, tokenExpiry, clock)
    THEN SendGet(rec, accessToken, "cached", clock, tokenExpiry)
    ELSE [rec EXCEPT !.pc = "awaitIms", !.lookup = "pending", !.imsPosts = @ + 1]

\* ----------------------------------------------------------- formatting
\* (mutant) the asset.created branch reads resource.owner.name unguarded
FormatThrowsUnguardedOwner(p) ==
  ~p.owner \/ (p.type = "comment.created" /\ (~p.asset \/ ~p.timestamp))

\* server.js:92-97  what the comment.created branch dereferences after the
\* lookup: resource.owner.name, resource.asset.name, and
\* new Date(resource.timestamp * 1000).toISOString(), which throws a
\* RangeError for a missing timestamp.  The asset.created branch (110-113)
\* guards every read.
FormatThrows(p) ==
  p.type = "comment.created" /\ (~p.owner \/ ~p.asset \/ ~p.timestamp)

\* A block of the message: its type and, in order, the values its template
\* interpolates.  A value is named after the payload field it is read from;
\* "HH:MM:SS" is new Date(resource.timestamp * 1000).toISOString().substr(11, 8).
Block(t, values) == [type |-> t, text |-> values]

\* (mutant) the image block is put before the section
commentBlocksImageFirst(name) ==
  << Block("context", <<name>>),
     Block("image", <<"resource.asset.thumbnail_url">>),
     Block("section", <<"resource.owner.name", "resource.asset.name", "HH:MM:SS",
                        "resource.text">>),
     Block("divider", <<>>) >>

\* server.js:99-104  slackBlocks of comment.created
commentBlocks(name) ==
  << Block("context", <<name>>),
     Block("section", <<"resource.owner.name", "resource.asset.name", "HH:MM:SS",
                        "resource.text">>),
     Block("image", <<"resource.asset.thumbnail_url">>),
     Block("divider", <<>>) >>

\* server.js:110  resource.owner ? resource.owner.name : 'A user'
uploaderName(p) == IF p.owner THEN "resource.owner.name" ELSE "A user"

\* server.js:115-120  slackBlocks of asset.created
assetBlocks(p, name) ==
  << Block("context", <<name>>),
     Block("section", <<uploaderName(p), "resource.short_url", "resource.name",
                        "assetSize">>),
     Block("image", <<"resource.thumbnail_url">>),
     Block("divider", <<>>) >>

\* server.js:89-121  the blocks of the two handled types
slackBlocks(p, name) ==
  IF p.type = "comment.created" THEN commentBlocks(name) ELSE assetBlocks(p, name)

\* part_001:34, 39; part_000:18, 20  message_text of the two handled types
messageText(p) ==
  IF p.type = "comment.created"
    THEN << Block("text", <<IF p.asset THEN "resource.asset.name" ELSE "Unknown Asset",
                            "resource.text",
                            IF p.asset THEN "resource.asset.short_url" ELSE "#">>) >>
    ELSE << Block("text", <<"resource.name", "resource.short_url">>) >>

\* server.js:128  await axios.post(SLACK_WEBHOOK_URL, { blocks: slackBlocks })
PostToSlack(rec) ==
  [rec EXCEPT !.pc = "awaitSlack", !.relay = "pending", !.chatPosts = @ + 1]

\* server.js:91-134 / 109-134  the handler from the return of getProjectName
\* to its next await: the rest of the formatting, its catch, and the chat POST
ContinueFormat(rec, name) ==
  LET named == [rec EXCEPT !.projectName = name, !.bearer = NULL, !.tok = NoToken]
  IN  IF FormatThrows(rec.payload)
        THEN Respond([named EXCEPT !.threw = TRUE], 500, "error")
        ELSE PostToSlack([named EXCEPT !.message = slackBlocks(rec.payload, name)])

\* (mutant) the guard on projectId is lost
getProjectNameUnguarded(rec, projectId) == getAccessToken(rec)

\* server.js:63-72  getProjectName up to its first await
getProjectName(rec, projectId) ==
  IF ~projectId
    THEN ContinueFormat([rec EXCEPT !.lookup = "absent"], "Unknown Project")
    ELSE getAccessToken(rec)

\* server.js:78-125  the handler from the arrival of the request to its
\* first await
webhook(rec, p) ==
  LET got == [rec EXCEPT !.payload = p]
  IN  IF ~slackUrlSet
        THEN Respond(got, 500, "config")
      ELSE IF ~IsHandled(p.type)
        THEN Respond(got, 200, "acknowledged")
      ELSE IF ~p.resource        \* resource.project_id of undefined
        THEN Respond([got EXCEPT !.threw = TRUE], 500, "error")
      ELSE getProjectName(got, p.project_id)

\* requests are numbered in the order they arrive
Arrives(r) == req[r].pc = "idle" /\ \A q \in Reqs : q < r => req[q].pc # "idle"

Receive(r, p) ==
  /\ variant = "server"
  /\ Arrives(r)
  /\ req' = [req EXCEPT ![r] = webhook(req[r], p)]
  /\ UNCHANGED <<config, clock, cache>>

\* (mutant) the catch rethrows, and the catch of the handler answers
LookupFailedRethrows(rec, why) ==
  Respond([rec EXCEPT !.lookup = why, !.threw = TRUE], 500, "error")

\* server.js:68-71  the catch of getProjectName: whatever the lookup threw
\* is logged and the literal is returned
LookupFailed(rec, why) ==
  ContinueFormat([rec EXCEPT !.lookup = why], "Unknown Project")

\* (mutant) an expiry already set is kept (tokenExpiry = tokenExpiry ||
\* Date.now() + ...), the token is written all the same
ImsOkKeepsExpiry(r, expires_in) ==
  /\ req[r].pc = "awaitIms"
  /\ accessToken' = r
  /\ tokenExpiry' = IF tokenExpiry = NULL THEN NewExpiry(clock, expires_in)
                    ELSE tokenExpiry
  /\ storedAt' = clock
  /\ tokenLifetime' = expires_in
  /\ expiryOf' = IF tokenExpiry = NULL THEN r ELSE expiryOf
  /\ req' = [req EXCEPT ![r] = SendGet([req[r] EXCEPT !.stores = @ + 1],
                                       accessToken', "exchange", clock,
                                       tokenExpiry')]
  /\ UNCHANGED <<config, clock>>

\* (mutant) a token already cached is kept (accessToken = accessToken ||
\* response.data.access_token), the expiry is written all the same
ImsOkKeepsToken(r, expires_in) ==
  /\ req[r].pc = "awaitIms"
  /\ accessToken' = IF accessToken = NULL THEN r ELSE accessToken
  /\ tokenExpiry' = NewExpiry(clock, expires_in)
  /\ storedAt' = clock
  /\ tokenLifetime' = expires_in
  /\ expiryOf' = r
  /\ req' = [req EXCEPT ![r] = SendGet([req[r] EXCEPT !.stores = @ + 1],
                                       accessToken', "exchange", clock,
                                       tokenExpiry')]
  /\ UNCHANGED <<config, clock>>

\* server.js:37-42, 54-56  the identity endpoint answered 2xx: the token and
\* the expiry are stored, the token is returned to the interceptor, which
\* sends the GET.  The token is named after the exchange that fetched it.
ImsOk(r, expires_in) ==
  /\ req[r].pc = "awaitIms"
  /\ accessToken' = r
  /\ tokenExpiry' = NewExpiry(clock, expires_in)
  /\ storedAt' = clock
  /\ tokenLifetime' = expires_in
  /\ expiryOf' = r
  /\ req' = [req EXCEPT ![r] = SendGet([req[r] EXCEPT !.stores = @ + 1],
                                       accessToken', "exchange", clock,
                                       tokenExpiry')]
  /\ UNCHANGED <<config, clock>>

\* (mutant) the catch of getAccessToken resets the cache
ImsFailClearsCache(r) ==
  /\ req[r].pc = "awaitIms"
  /\ accessToken' = NULL
  /\ tokenExpiry' = NULL
  /\ storedAt' = NULL
  /\ tokenLifetime' = NULL
  /\ expiryOf' = NULL
  /\ req' = [req EXCEPT ![r] = LookupFailed([req[r] EXCEPT !.authErr = TRUE],
                                            "authfail")]
  /\ UNCHANGED <<config, clock>>

\* server.js:44-47, 68-71  the identity exchange failed: getAccessToken
\* throws, the interceptor rejects, frameioApi.get rejects inside the try of
\* getProjectName
ImsFail(r) ==
  /\ req[r].pc = "awaitIms"
  /\ req' = [req EXCEPT ![r] = LookupFailed([req[r] EXCEPT !.authErr = TRUE],
                                            "authfail")]
  /\ UNCHANGED <<config, clock, cache>>

\* what a 2xx answer of GET /projects/{id} may carry
ProjectBodies == {"named", "nameless"}

\* server.js:67  return response.data.name: the name, or undefined when the
\* body is an object without one
ProjectNameOf(rec, data) ==
  IF data = "named" THEN ContinueFormat([rec EXCEPT !.lookup = "ok"], "name")
  ELSE ContinueFormat([rec EXCEPT !.lookup = "noname"], "undefined")

GetOk(r, data) ==
  /\ req[r].pc = "awaitGet"
  /\ req' = [req EXCEPT ![r] = ProjectNameOf(req[r], data)]
  /\ UNCHANGED <<config, clock, cache>>

\* server.js:66-71  network error or a 4xx/5xx answer: axios rejects
GetFail(r) ==
  /\ req[r].pc = "awaitGet"
  /\ req' = [req EXCEPT ![r] = LookupFailed(req[r], "failed")]
  /\ UNCHANGED <<config, clock, cache>>

\* ------------------------------------------------------------- the relay
\* server.js:129, part_001:51, part_000:27-29
RelayOk(rec) == Respond([rec EXCEPT !.relay = "ok"], 200, "forwarded")

\* (mutant) a failed relay is tried again
RelayFailedRetries(rec) == PostToSlack([rec EXCEPT !.relay = "failed"])

\* (mutant) a failed relay is answered like a successful one
RelayFailedForwarded(rec) == Respond([rec EXCEPT !.relay = "failed"], 200, "forwarded")

\* server.js:131-134, part_001:52-55, part_000:30-33
RelayFailed(rec) == Respond([rec EXCEPT !.relay = "failed"], 500, "error")

\* the chat endpoint answered 2xx; without a URL there is no endpoint
SlackOk(r) ==
  /\ req[r].pc = "awaitSlack"
  /\ slackUrlSet
  /\ req' = [req EXCEPT ![r] = RelayOk(req[r])]
  /\ UNCHANGED <<config, clock, cache>>

\* the chat POST was rejected
SlackFail(r) ==
  /\ req[r].pc = "awaitSlack"
  /\ req' = [req EXCEPT ![r] = RelayFailed(req[r])]
  /\ UNCHANGED <<config, clock, cache>>

\* --------------------------------------------------------- part_001
\* What Express does with a handler that throws outside any try.  An async
\* handler returns a rejected promise: Express 5 answers 500 through its
\* error handler, Express 4 ignores the promise and the request is never
\* answered.  The repository pins no version.
ExpressVersions == {"v4", "v5"}

AsyncThrow(rec, express) ==
  IF express = "v5"
    THEN Respond([rec EXCEPT !.threw = TRUE], 500, "framework")
    ELSE [rec EXCEPT !.threw = TRUE, !.pc = "unanswered"]

\* part_001:21-50  the handler up to its await.  Both handled branches read
\* a field of resource (34, 37); a missing resource.asset is replaced (37-38).
webhook001(rec, p, express) ==
  LET got == [rec EXCEPT !.payload = p]
  IN  IF ~slackUrlSet
        THEN Respond(got, 500, "config")
      ELSE IF ~IsHandled(p.type)
        THEN Respond(got, 200, "acknowledged")
      ELSE IF ~p.resource
        THEN AsyncThrow(got, express)
      ELSE PostToSlack([got EXCEPT !.message = messageText(p)])

Receive001(r, p, express) ==
  /\ variant = "part_001"
  /\ Arrives(r)
  /\ req' = [req EXCEPT ![r] = webhook001(req[r], p, express)]
  /\ UNCHANGED <<config, clock, cache>>

\* --------------------------------------------------------- part_000
\* part_000:17-20  asset.created reads resource.name, comment.created reads
\* resource.asset.name
FormatThrows000(p) ==
  \/ p.type = "asset.created" /\ ~p.resource
  \/ p.type = "comment.created" /\ (~p.resource \/ ~p.asset)

\* part_000:26  axios.post(SLACK_WEBHOOK_URL, ...): without a URL no request
\* leaves the process and the promise rejects
PostToSlack000(rec) ==
  IF slackUrlSet THEN PostToSlack(rec)
  ELSE [rec EXCEPT !.pc = "awaitSlack", !.relay = "pending"]

\* part_000:13-26  the handler up to the chat POST.  It is a synchronous
\* function: Express catches what it throws and answers 500.
webhook000(rec, p) ==
  LET got == [rec EXCEPT !.payload = p]
  IN  IF ~IsHandled(p.type)
        THEN Respond(got, 200, "acknowledged")
      ELSE IF FormatThrows000(p)
        THEN Respond([got EXCEPT !.threw = TRUE], 500, "framework")
      ELSE PostToSlack000([got EXCEPT !.message = messageText(p)])

Receive000(r, p) ==
  /\ variant = "part_000"
  /\ Arrives(r)
  /\ req' = [req EXCEPT ![r] = webhook000(req[r], p)]
  /\ UNCHANGED <<config, clock, cache>>

\* ------------------------------------------------------------- the clock
\* Date.now() is read by src/server.js only (24, 39): by a request that
\* arrives and by one whose identity exchange returns
Tick(d) ==
  /\ variant = "server"
  /\ \E r \in Reqs : req[r].pc \in {"idle", "awaitIms"}
  /\ clock + d <= MaxClock
  /\ clock' = clock + d
  /\ UNCHANGED <<config, cache, req>>

Next ==
  \/ \E r \in Reqs, p \in Payloads : Receive(r, p)
  \/ \E r \in Reqs, p \in Payloads, e \in ExpressVersions : Receive001(r, p, e)
  \/ \E r \in Reqs, p \in Payloads : Receive000(r, p)
  \/ \E r \in Reqs, l \in Lifetimes : ImsOk(r, l)
  \/ \E r \in Reqs : ImsFail(r)
  \/ \E r \in Reqs, d \in ProjectBodies : GetOk(r, d)
  \/ \E r \in Reqs : GetFail(r)
  \/ \E r \in Reqs : SlackOk(r)
  \/ \E r \in Reqs : SlackFail(r)
  \/ \E d \in Ticks : Tick(d)

Spec == Init /\ [][Next]_vars

\* ================================================================ claims
Server == variant = "server"

\* request r takes the step in which it calls getAccessToken
CallsGetAccessToken(r) ==
  req[r].pc = "idle" /\ req'[r].pc \in {"awaitIms", "awaitGet"}

\* the call of r was answered from the cache: no exchange, the cached token
\* in the header, the cache as it was
Reused(r) ==
  /\ req'[r].imsPosts = 0
  /\ req'[r].bearer = accessToken
  /\ UNCHANGED cache

\* the call of r issued one POST to the identity endpoint
Refreshed(r) == req'[r].imsPosts = 1 /\ req'[r].apiGets = 0

\* C1 as stated: a token stored at T is returned, with no exchange, by every
\* call before T + lifetime - 60 s, and a call at or after that instant
\* makes exactly one POST to the identity endpoint.
C1_LifetimeExpiry ==
  [][\A r \in Reqs :
       CallsGetAccessToken(r) /\ accessToken # NULL =>
         IF clock < storedAt + tokenLifetime - 1 THEN Reused(r) ELSE Refreshed(r)]_vars

\* C1 as amended: a token stored at T is returned, with no exchange, by every
\* call made before T + one hour while it is the cached token; a call at or
\* after T + one hour, or with nothing cached, makes exactly one POST to the
\* identity endpoint, and no request ever makes more than one.
C1_FixedHourExpiry ==
  /\ [](\A r \in Reqs : req[r].imsPosts <= 1)
  /\ [][\A r \in Reqs :
          CallsGetAccessToken(r) =>
            IF accessToken # NULL /\ clock < storedAt + TokenTtl
              THEN Reused(r) ELSE Refreshed(r)]_vars

\* a request is being served from a token another request stored half an
\* hour earlier
C1_Witness ==
  \E r \in Reqs :
    /\ req[r].pc = "awaitGet" /\ req[r].imsPosts = 0
    /\ req[r].bearer = accessToken /\ accessToken # r
    /\ clock > storedAt /\ clock < storedAt + TokenTtl

\* C2: the GET in flight carries the token getAccessToken returned to this
\* request, and that token was either fetched by this request's own exchange
\* or was cached with Date.now() strictly before tokenExpiry at the check.
C2_BearerCurrent ==
  \A r \in Reqs :
    /\ req[r].apiGets <= 1
    /\ req[r].pc = "awaitGet" =>
         /\ req[r].apiGets = 1
         /\ req[r].bearer # NULL
         /\ req[r].bearer = req[r].tok.token
         /\ \/ req[r].tok.kind = "exchange" /\ req[r].bearer = r /\ req[r].imsPosts = 1
            \/ req[r].tok.kind = "cached" /\ req[r].tok.unexpired /\ req[r].imsPosts = 0

\* a GET is in flight with a token another request fetched, after time
\* has passed
C2_Witness ==
  \E r \in Reqs :
    /\ req[r].pc = "awaitGet" /\ req[r].tok.kind = "cached"
    /\ req[r].bearer # r /\ clock > storedAt

\* C3 as stated: a request whose identity exchange failed is answered 500
\* and makes no POST to the chat endpoint.
C3_AuthErrorAborts ==
  \A r \in Reqs :
    req[r].authErr => req[r].status = 500 /\ req[r].chatPosts = 0

\* C3 as amended: the error getAccessToken throws is caught by
\* getProjectName, which returns 'Unknown Project'; formatting goes on, and
\* unless it throws on a missing field the message is posted to the chat
\* endpoint and the answer is 200 exactly when that POST succeeds.
C3_AuthErrorSwallowed ==
  \A r \in Reqs :
    req[r].authErr =>
      /\ req[r].projectName = "Unknown Project"
      /\ req[r].imsPosts = 1 /\ req[r].apiGets = 0
      /\ IF req[r].payload.type = "comment.created"
            /\ ~(req[r].payload.owner /\ req[r].payload.asset /\ req[r].payload.timestamp)
           THEN req[r].pc = "done" /\ req[r].status = 500 /\ req[r].chatPosts = 0
           ELSE /\ req[r].chatPosts = 1
                /\ req[r].pc \in {"awaitSlack", "done"}
                /\ req[r].pc = "done" =>
                     \/ req[r].status = 200 /\ req[r].relay = "ok"
                     \/ req[r].status = 500 /\ req[r].relay = "failed"

\* the identity exchange failed and the message was forwarded all the same
C3_Witness ==
  \E r \in Reqs :
    /\ req[r].authErr /\ req[r].chatPosts = 1
    /\ req[r].status = 200 /\ req[r].body = "forwarded"

\* C4: whenever projectId is absent or the lookup fails (identity failure,
\* network error, 4xx/5xx, a 2xx body without a name), getProjectName
\* returns 'Unknown Project'.
C4_LookupFallback ==
  \A r \in Reqs :
    req[r].lookup \in {"absent", "authfail", "failed", "noname"} =>
      req[r].projectName = "Unknown Project"

\* C5: with the chat URL configured, an event of another type is answered
\* 200 at once, with no chat POST, no project lookup, no identity exchange
\* and no write of the token cache.
C5_UnhandledAcknowledged ==
  \A r \in Reqs :
    slackUrlSet /\ req[r].payload.type = "unknown.event" =>
      /\ req[r].pc = "done"
      /\ req[r].status = 200 /\ req[r].body = "acknowledged"
      /\ req[r].chatPosts = 0 /\ req[r].apiGets = 0
      /\ req[r].imsPosts = 0 /\ req[r].stores = 0
      /\ req[r].lookup = "none" /\ req[r].relay = "none"

\* an event of another type was acknowledged while a token was cached
C5_Witness ==
  \E r \in Reqs :
    /\ req[r].payload.type = "unknown.event" /\ req[r].status = 200
    /\ Server /\ accessToken # NULL

\* C6: without the chat URL every request, whatever its type, is answered
\* 500 at once: formatter not run, no lookup, no exchange, no chat POST.
C6_NoUrlAnswers500 ==
  \A r \in Reqs :
    ~slackUrlSet /\ req[r].pc # "idle" =>
      /\ req[r].pc = "done" /\ req[r].status = 500
      /\ ~req[r].threw /\ req[r].relay = "none"
      /\ req[r].chatPosts = 0 /\ req[r].apiGets = 0
      /\ req[r].imsPosts = 0 /\ req[r].stores = 0

\* C7: getProjectName with an absent projectId returns 'Unknown Project'
\* with no GET to the media-review API, no identity exchange and no write of
\* the token cache.
C7_AbsentProjectId ==
  \A r \in Reqs :
    /\ Server /\ slackUrlSet /\ req[r].pc # "idle"
    /\ req[r].payload.type \in {"comment.created", "asset.created"}
    /\ req[r].payload.resource /\ ~req[r].payload.project_id
    => /\ req[r].lookup = "absent"
       /\ req[r].projectName = "Unknown Project"
       /\ req[r].apiGets = 0 /\ req[r].imsPosts = 0 /\ req[r].stores = 0
       /\ req[r].bearer = NULL

\* an event without project_id was forwarded, and no token was ever fetched
C7_Witness ==
  \E r \in Reqs :
    /\ Server /\ req[r].lookup = "absent" /\ req[r].body = "forwarded"
    /\ accessToken = NULL /\ \A q \in Reqs : req[q].pc = "done"

\* C8: no request makes more than one POST to the chat endpoint, and one
\* whose POST failed is answered 500 and is over.
C8_NoRetry ==
  \A r \in Reqs :
    /\ req[r].chatPosts <= 1
    /\ req[r].relay = "failed" => req[r].pc = "done" /\ req[r].status = 500

\* a chat POST failed and the request was answered 500
C8_Witness ==
  \E r \in Reqs :
    req[r].relay = "failed" /\ req[r].chatPosts = 1 /\ req[r].status = 500

\* C9: a request whose formatting threw is answered 500 and makes no POST
\* to the chat endpoint.
C9_FormatThrowAnswers500 ==
  \A r \in Reqs :
    req[r].threw => req[r].status = 500 /\ req[r].chatPosts = 0

\* C10: the chat POST is issued only once the project-name lookup of the
\* request is over, no answer is sent while the chat POST is in flight, and
\* the 200 'forwarded' answer is sent only for a request whose one chat POST
\* succeeded.
C10_Order ==
  \A r \in Reqs :
    /\ req[r].chatPosts > 0 =>
         /\ req[r].pc \in {"awaitSlack", "done"}
         /\ Server => req[r].lookup \in {"absent", "authfail", "failed", "noname", "ok"}
         /\ Server => req[r].projectName # "none"
    /\ req[r].pc = "awaitSlack" => req[r].status = 0 /\ req[r].relay = "pending"
    /\ req[r].body = "forwarded" =>
         req[r].status = 200 /\ req[r].relay = "ok" /\ req[r].chatPosts = 1
    /\ req[r].relay \in {"none", "pending", "failed"} => req[r].body # "forwarded"

\* a request was forwarded after a lookup that went to the API
C10_Witness ==
  \E r \in Reqs :
    /\ req[r].body = "forwarded" /\ req[r].lookup = "ok"
    /\ req[r].apiGets = 1 /\ req[r].chatPosts = 1

\* C11 as stated: a successful exchange stores the access_token and the
\* expiry now + expires_in - 60 s, and returns the stored token.
C11_ExpiryFromLifetime ==
  accessToken # NULL => tokenExpiry = storedAt + tokenLifetime - 1

\* C11 as amended: a successful exchange stores the access_token and the
\* expiry now + one hour, whatever lifetime the provider declared, and
\* returns the token it stored.
C11_ExpiryFixedHour ==
  /\ accessToken # NULL =>
       /\ accessToken \in Reqs
       /\ req[accessToken].stores = 1 /\ ~req[accessToken].authErr
       /\ storedAt <= clock
       /\ tokenExpiry = storedAt + TokenTtl
  /\ \A r \in Reqs :
       /\ req[r].stores = req[r].imsPosts - (IF req[r].pc = "awaitIms" \/ req[r].authErr
                                             THEN 1 ELSE 0)
       /\ req[r].tok.kind = "exchange" =>
            req[r].stores = 1 /\ req[r].bearer = r /\ req[r].tok.unexpired

\* an exchange that declared a lifetime of 90 minutes was stored, after
\* time had passed, with an expiry one hour ahead, and its token is on its
\* way to the API
C11_Witness ==
  /\ accessToken # NULL /\ storedAt > 0 /\ tokenLifetime = 90
  /\ tokenExpiry = storedAt + TokenTtl
  /\ req[accessToken].pc = "awaitGet" /\ req[accessToken].bearer = accessToken

\* C12: under every interleaving of overlapping exchanges, a call that does
\* not throw returns a token the provider issued, and once no exchange is
\* in flight the cache holds the token of one of the exchanges that
\* succeeded, with the expiry that same exchange wrote.
C12_OverlapHarmless ==
  /\ accessToken # NULL =>
       /\ accessToken \in Reqs /\ req[accessToken].stores = 1
       /\ expiryOf = accessToken
  /\ \A r \in Reqs :
       req[r].tok.kind # "none" =>
         /\ req[r].tok.token \in Reqs
         /\ req[req[r].tok.token].stores = 1
         /\ req[r].tok.kind = "exchange" => req[r].tok.token = r
  /\ (\A r \in Reqs : req[r].pc # "awaitIms") /\ (\E r \in Reqs : req[r].stores = 1)
       => accessToken # NULL /\ tokenExpiry # NULL

\* two exchanges overlapped (the second was issued before the first token
\* was stored: no token can have expired yet), both succeeded, and the cache
\* holds the token and the expiry of the one that arrived first and
\* finished last
C12_Witness ==
  \E r, q \in Reqs :
    /\ r < q /\ req[r].stores = 1 /\ req[q].stores = 1
    /\ clock < TokenTtl
    /\ \A x \in Reqs : req[x].pc # "awaitIms"
    /\ accessToken = r /\ expiryOf = r

\* the types of the blocks of a message, in order
BlockTypes(m) == [i \in 1..Len(m) |-> m[i].type]

\* the request is past its project-name lookup
PastLookup(r) == req[r].pc \in {"awaitSlack", "done"}

\* C13: in server.js, the message relayed for a comment.created event with
\* all required fields is exactly the blocks context, section, image,
\* divider: the context holds the value getProjectName returned, the section
\* holds commenter name, asset name, HH:MM:SS timestamp and comment text in
\* that order, the image holds the asset thumbnail.
C13_CommentBlocks ==
  \A r \in Reqs :
    /\ Server /\ slackUrlSet /\ PastLookup(r)
    /\ req[r].payload.type = "comment.created" /\ req[r].payload.resource
    /\ req[r].payload.owner /\ req[r].payload.asset /\ req[r].payload.timestamp
    => /\ req[r].chatPosts = 1
       /\ BlockTypes(req[r].message) = <<"context", "section", "image", "divider">>
       /\ req[r].message[1].text = <<req[r].projectName>>
       /\ req[r].projectName \in {"Unknown Project", "name", "undefined"}
       /\ req[r].payload.project_id = (req[r].lookup # "absent")
       /\ req[r].lookup = "ok" => req[r].projectName = "name"
       /\ req[r].message[2].text =
            <<"resource.owner.name", "resource.asset.name", "HH:MM:SS", "resource.text">>
       /\ req[r].message[3].text = <<"resource.asset.thumbnail_url">>

\* a comment was forwarded with the name the API returned for its project
C13_Witness ==
  \E r \in Reqs :
    /\ Server /\ req[r].payload.type = "comment.created"
    /\ req[r].body = "forwarded" /\ req[r].lookup = "ok"
    /\ Len(req[r].message) = 4 /\ req[r].message[1].text = <<"name">>

\* C14: in server.js, an asset.created event is formatted and relayed whether
\* or not it has an owner: the section starts with 'A user' when
\* resource.owner is missing and with the owner's name when it is there.
C14_UploaderPlaceholder ==
  \A r \in Reqs :
    /\ Server /\ slackUrlSet /\ PastLookup(r)
    /\ req[r].payload.type = "asset.created" /\ req[r].payload.resource
    => /\ ~req[r].threw /\ req[r].chatPosts = 1 /\ req[r].relay # "none"
       /\ BlockTypes(req[r].message) = <<"context", "section", "image", "divider">>
       /\ req[r].message[2].text[1] =
            (IF req[r].payload.owner THEN "resource.owner.name" ELSE "A user")

\* an upload without owner was forwarded with the placeholder
C14_Witness ==
  \E r \in Reqs :
    /\ Server /\ req[r].payload.type = "asset.created" /\ ~req[r].payload.owner
    /\ req[r].body = "forwarded" /\ req[r].message[2].text[1] = "A user"

\* C15: a failed identity exchange makes getAccessToken throw and writes
\* neither accessToken nor tokenExpiry; nothing of the failure is kept, so
\* a later call that finds no token, or an expired one, posts to the
\* identity endpoint again.
C15_FailureNotCached ==
  /\ [](\A r \in Reqs :
          req[r].authErr =>
            req[r].stores = 0 /\ req[r].imsPosts = 1 /\ accessToken # r)
  /\ [][\A r \in Reqs :
          req[r].pc = "awaitIms" /\ req'[r].authErr =>
            accessToken' = accessToken /\ tokenExpiry' = tokenExpiry]_vars
  /\ [][\A r \in Reqs :
          /\ CallsGetAccessToken(r)
          /\ \E q \in Reqs : req[q].authErr
          /\ ~(accessToken # NULL /\ clock < tokenExpiry)
          => req'[r].pc = "awaitIms" /\ req'[r].imsPosts = 1]_vars

\* an exchange made for an expired token failed, and the cache still holds
\* the expired token of the earlier exchange
C15_Witness ==
  \E r \in Reqs :
    /\ req[r].authErr
    /\ accessToken # NULL /\ accessToken # r
    /\ clock >= tokenExpiry

\* C16: a request that has arrived is either answered, once, with 200 or
\* 500, or is waiting for an outbound call to complete or fail.
C16_AlwaysAnswered ==
  \A r \in Reqs :
    req[r].pc # "idle" =>
      \/ req[r].pc = "done" /\ req[r].status \in {200, 500}
      \/ req[r].pc \in {"awaitIms", "awaitGet", "awaitSlack"} /\ req[r].status = 0

\* C17: accessToken and tokenExpiry are written in one step by the same
\* exchange (both null, or the pair of one exchange), and tokenExpiry never
\* decreases.
C17_CacheConsistent ==
  /\ []((accessToken = NULL) = (tokenExpiry = NULL))
  /\ [](expiryOf = accessToken)
  /\ [][/\ tokenExpiry' >= tokenExpiry
         /\ (accessToken' # accessToken) = (expiryOf' # expiryOf)
         /\ accessToken' # accessToken => tokenExpiry' = clock + TokenTtl]_vars

\* the pair of one exchange was overwritten by the pair of a later one, with
\* a later expiry
C17_Witness ==
  \E r \in Reqs :
    /\ req[r].stores = 1 /\ accessToken # NULL /\ accessToken # r
    /\ expiryOf = accessToken /\ tokenExpiry > TokenTtl

====
